---- MODULE Spec2Model ----
(***************************************************************************)
(* Model of the evacuation simulation of src/shitty_simulation.py and the  *)
(* room data of src/rooms.py.                                              *)
(*                                                                         *)
(* Representation.  The source computes with floats.  Points are taken     *)
(* from a set of grid points whose pairwise Euclidean distances are        *)
(* integers, speeds are small integers, and every time value is kept as an *)
(* integer number of ticks, Scale ticks to one time unit, Scale being a    *)
(* common multiple of the positive speeds.  On these inputs every float    *)
(* operation of the source is exact, so the 1e-9 tolerance of line 196     *)
(* separates exactly the countdowns that are 0 from those that are not.    *)
(***************************************************************************)
EXTENDS Integers, Sequences, FiniteSets, TLC

\* ------------------------------------------------------------------ bounds
MaxRooms == 2
MaxResponders == 2
MaxUnabled == 2
MaxSpeed == 2
MaxExits == 2
MaxDoors == 2
MaxChildren == 1

\* ------------------------------------------------------------ numbers
RECURSIVE Factorial(_)
Factorial(n) == IF n <= 1 THEN 1 ELSE n * Factorial(n - 1)

\* ticks per time unit: every positive speed of the model divides it
Scale == Factorial(MaxSpeed)

Speeds == (0 - 1)..MaxSpeed

\* the quotient rounded down, as int() or // would
Ceil_Truncated(num, den) == num \div den

\* math.ceil(num / den) for den > 0
Ceil(num, den) == IF num % den = 0 THEN num \div den ELSE (num \div den) + 1

\* the integer r with r*r <= n < (r+1)*(r+1); exact on the model's point set
ISqrt(n) == CHOOSE r \in 0..n : r * r <= n /\ n < (r + 1) * (r + 1)

\* math.hypot, in ticks per unit of length 1
hypot(dx, dy) == ISqrt(dx * dx + dy * dy)

\* None
None == <<>>

\* F applied to the value of e, e evaluated once (a loop body applied to the
\* state the previous iteration left)
Then(e, F(_)) == CHOOSE r \in {F(x) : x \in {e}} : TRUE

\* float("inf") as the initial best distance: below no distance
Inf == 0 - 1

\* ------------------------------------------------------------ geometry
\* Four points with integer pairwise distances 3, 3, 6, 4, 5, 5.
Origin == <<0, 0>>
West == <<0 - 3, 0>>
East == <<3, 0>>
North == <<0, 4>>
Points == {Origin, West, East, North}

_distance(a, b) == hypot(a[1] - b[1], a[2] - b[2])

\* RoomGeometry.center
center(shape) ==
    <<(shape.bottom_left[1] + shape.top_right[1]) \div 2,
      (shape.bottom_left[2] + shape.top_right[2]) \div 2>>

\* Door.position / ExitNode.position: a door or an exit is its point
position(node) == node

\* RoomNode.get_door_positions
get_door_positions(room) == [k \in 1..Len(room.doors) |-> position(room.doors[k])]

\* RoomNode.clearance_time, in whole time units (base_clear_time is in ticks)
clearance_time(room) ==
    LET extra == 5 * room.occupants.children
    IN  Ceil(room.base_clear_time + extra * Scale, Scale)

\* ------------------------------------------------- _choose_nearest_room
\* room.get_door_positions() or [room.shape.center]
door_positions(room) ==
    IF get_door_positions(room) # <<>>
    THEN get_door_positions(room)
    ELSE <<center(room.shape)>>

\* the comparison turned round: the scan keeps the farthest candidate
CloserThan_Reversed(dist, best_dist) == best_dist = Inf \/ dist > best_dist

\* a scan that lets a later candidate at the same distance win
CloserThan_OrEqual(dist, best_dist) == best_dist = Inf \/ dist <= best_dist

\* dist < best_dist, with best_dist possibly float("inf")
CloserThan(dist, best_dist) == best_dist = Inf \/ dist < best_dist

\* the inner loop over the doors of room number k of rooms_left
RECURSIVE ScanDoors(_, _, _, _, _)
ScanDoors(pos, k, doors, j, best) ==
    IF j > Len(doors) THEN best
    ELSE LET dist == _distance(pos, doors[j])
         IN  Then(IF CloserThan(dist, best.dist)
                  THEN [room |-> k, door |-> doors[j], dist |-> dist]
                  ELSE best,
                  LAMBDA next : ScanDoors(pos, k, doors, j + 1, next))

\* the outer loop over rooms_left
RECURSIVE ScanRooms(_, _, _, _)
ScanRooms(pos, rooms_left, k, best) ==
    IF k > Len(rooms_left) THEN best
    ELSE Then(Then(door_positions(rooms_left[k]),
                   LAMBDA doors : ScanDoors(pos, k, doors, 1, best)),
              LAMBDA next : ScanRooms(pos, rooms_left, k + 1, next))

\* Returns <<room, door, travel_time>>; room is the place in rooms_left of the
\* chosen room, 0 for None; travel_time is in ticks.
_choose_nearest_room(pos, rooms_left, speed) ==
    IF rooms_left = <<>> THEN <<0, None, 0>>
    ELSE LET best == ScanRooms(pos, rooms_left, 1,
                         [room |-> 0, door |-> None, dist |-> Inf])
         IN  IF best.room = 0 THEN <<0, None, 0>>
             ELSE <<best.room, best.door,
                    IF speed > 0 THEN (best.dist * Scale) \div speed ELSE 0>>

\* --------------------------------------------------------- _nearest_exit
RECURSIVE ScanExits(_, _, _, _)
ScanExits(source, exits_, k, best) ==
    IF k > Len(exits_) THEN best
    ELSE LET dist == _distance(source, position(exits_[k]))
         IN  Then(IF CloserThan(dist, best.dist)
                  THEN [exit |-> k, dist |-> dist]
                  ELSE best,
                  LAMBDA next : ScanExits(source, exits_, k + 1, next))

\* Returns <<exit, distance>>; exit is the place in exits_ of the nearest
\* exit, 0 for None.
_nearest_exit(source, exits_) ==
    IF exits_ = <<>> THEN <<0, 0>>
    ELSE LET best == ScanExits(source, exits_, 1, [exit |-> 0, dist |-> Inf])
         IN  <<best.exit, best.dist>>

\* ---------------------------------------------------- _unabled_evac_time
\* a single trip timed at the unloaded speed
OneTripTime_Unloaded(d, s) == (d * Scale) \div s

\* extra_time of the branch num_unabled == 1, in ticks
OneTripTime(d, s) == (2 * d * Scale) \div s

\* a return trip counted after the last carry too
CyclesTime_LastReturn(num_unabled, d, s) == (3 * num_unabled * d * Scale) \div s

\* extra_time of the branch num_unabled > 1, in ticks
CyclesTime(num_unabled, d, s) == ((3 * num_unabled - 1) * d * Scale) \div s

\* a guard that lets a count of zero through
Degenerate_ZeroCounted(num_unabled, responder_speed, exits_) ==
    num_unabled < 0 \/ responder_speed <= 0 \/ exits_ = <<>>

\* the guard of line 97
Degenerate(num_unabled, responder_speed, exits_) ==
    num_unabled <= 0 \/ responder_speed <= 0 \/ exits_ = <<>>

\* Returns <<extra_time, final_position>>, extra_time in ticks.
_unabled_evac_time(num_unabled, door_position, exits_, responder_speed) ==
    IF Degenerate(num_unabled, responder_speed, exits_)
    THEN <<0, door_position>>
    ELSE Then(_nearest_exit(door_position, exits_),
              LAMBDA ne :
                  IF ne[1] = 0 THEN <<0, door_position>>
                  ELSE <<IF num_unabled = 1
                         THEN OneTripTime(ne[2], responder_speed)
                         ELSE CyclesTime(num_unabled, ne[2], responder_speed),
                         position(exits_[ne[1]])>>)

\* ========================================================================
\* find_fastest_evacuation
\* ========================================================================
VARIABLES
    pc,               \* where find_fastest_evacuation stands
    n_responders,     \* argument
    rooms,            \* the RoomNode objects of the argument list, by identity
    exits,            \* argument
    responder_speed,  \* argument
    start_position,   \* argument
    remaining_rooms,  \* list of references (places in rooms)
    responders,       \* list of ResponderState
    current_time,     \* in ticks
    initial_rooms,    \* history: rooms as passed in
    busy,             \* history: per responder, sum of the countdowns set
    zeroed,           \* history: per room, times line 225 ran for it
    cleared,          \* history: per room, times a clearing countdown ended
    changes,          \* history: per responder, state changes in this pass
    call,             \* the pure function applied and its arguments
    ret               \* what it returned

vars == <<pc, n_responders, rooms, exits, responder_speed, start_position,
          remaining_rooms, responders, current_time, initial_rooms, busy,
          zeroed, cleared, changes, call, ret>>

inputs == <<n_responders, exits, responder_speed, start_position, initial_rooms>>

fnvars == <<call, ret>>

\* ResponderState(...) of lines 136-142; target_room 0 is None
NewResponder(start) ==
    [state |-> "idle", time_remaining |-> 0, position |-> start,
     target_room |-> 0, target_door |-> None]

NonIdle == {"moving", "clearing", "evacuating_unabled"}

\* the test of line 196 left out
StillBusy_Never(r) == FALSE

\* r.time_remaining > 1e-9
StillBusy(r) == r.time_remaining > 0

\* room in lst: list membership is by identity or by == of the dataclass
RoomIn(rs, room, lst) ==
    \E k \in 1..Len(lst) : lst[k] = room \/ rs[lst[k]] = rs[room]

\* the head of the list dropped (lst.pop(0)), whichever room it is
ListRemove_First(rs, room, lst) == Tail(lst)

\* lst.remove(room): drops the first entry that is room or equals it
ListRemove(rs, room, lst) ==
    LET k == CHOOSE j \in 1..Len(lst) :
                 /\ (lst[j] = room \/ rs[lst[j]] = rs[room])
                 /\ \A h \in 1..(j - 1) : ~(lst[h] = room \/ rs[lst[h]] = rs[room])
    IN  [h \in 1..(Len(lst) - 1) |-> IF h < k THEN lst[h] ELSE lst[h + 1]]

\* if room in remaining_rooms: remaining_rooms.remove(room)
RemoveRoom(rs, room, lst) ==
    IF room # 0 /\ RoomIn(rs, room, lst) THEN ListRemove(rs, room, lst) ELSE lst

\* the loop condition of line 148
LoopCondition(remaining, resp) ==
    remaining # <<>> \/ \E i \in 1..Len(resp) : resp[i].state # "idle"

\* lines 150-155
already_taken(resp) ==
    LET Busy(r) == r.state \in NonIdle /\ r.target_room # 0
    IN  [k \in 1..Len(SelectSeq(resp, Busy)) |-> SelectSeq(resp, Busy)[k].target_room]

\* lines 157-159
available_rooms(rs, remaining, resp) ==
    Then(already_taken(resp),
         LAMBDA taken : LET Free(room) == ~RoomIn(rs, room, taken)
                        IN  SelectSeq(remaining, Free))

\* a claimed room left among the candidates of the pass
MarkTaken_Forgotten(available, room) == available

\* line 175
MarkTaken(available, room) ==
    LET Other(rm) == rm # room
    IN  SelectSeq(available, Other)

\* lines 169-175: responder i takes the room at place choice[1] of available
Claim(i, st, choice) ==
    [responders |->
         [st.responders EXCEPT ![i] =
             [@ EXCEPT !.state = "moving",
                       !.target_room = st.available[choice[1]],
                       !.target_door = choice[2],
                       !.time_remaining = choice[3]]],
     available |-> MarkTaken(st.available, st.available[choice[1]]),
     busy |-> [st.busy EXCEPT ![i] = @ + choice[3]],
     changes |-> [st.changes EXCEPT ![i] = @ + 1]]

\* lines 162-175 for responder i; st = [responders, available, busy, changes]
AssignOne(i, rs, speed, st) ==
    IF st.responders[i].state = "idle" /\ st.available # <<>>
    THEN Then(Then([k \in 1..Len(st.available) |-> rs[st.available[k]]],
                   LAMBDA candidates :
                       _choose_nearest_room(st.responders[i].position,
                                            candidates, speed)),
              LAMBDA choice : IF choice[1] = 0 THEN st ELSE Claim(i, st, choice))
    ELSE st

\* the loop of line 161, from responder i on
RECURSIVE AssignFrom(_, _, _, _)
AssignFrom(i, rs, speed, st) ==
    IF i > Len(st.responders) THEN st
    ELSE Then(AssignOne(i, rs, speed, st),
              LAMBDA next : AssignFrom(i + 1, rs, speed, next))

\* the responders carrying unabled occupants left out of the active ones
active_BeforeEvacuation(resp) ==
    {i \in 1..Len(resp) : resp[i].state \in {"moving", "clearing"}}

\* lines 178-181
active(resp) == {i \in 1..Len(resp) : resp[i].state \in NonIdle}

\* the minimum taken over every responder, the idle ones included
NextEvent_AllResponders(resp) ==
    CHOOSE t \in {resp[i].time_remaining : i \in 1..Len(resp)} :
        \A i \in 1..Len(resp) : t <= resp[i].time_remaining

\* line 187
NextEvent(resp) ==
    CHOOSE t \in {resp[i].time_remaining : i \in active(resp)} :
        \A i \in active(resp) : t <= resp[i].time_remaining

\* the clock set to the jump instead of advanced by it
AdvanceClock_Assigned(t, dt) == dt

\* line 188
AdvanceClock(t, dt) == t + dt

\* the jump taken off every countdown, the idle responders' included
Elapse_Everyone(resp, dt) ==
    [i \in 1..Len(resp) |-> [resp[i] EXCEPT !.time_remaining = @ - dt]]

\* lines 191-192
Elapse(resp, dt) ==
    [i \in 1..Len(resp) |->
        IF i \in active(resp)
        THEN [resp[i] EXCEPT !.time_remaining = @ - dt]
        ELSE resp[i]]

\* the count left as it was
ZeroUnabled_Skipped(room) == room

\* the count lowered by the one occupant carried on a trip
ZeroUnabled_OneCarried(room) == [room EXCEPT !.occupants.unabled = @ - 1]

\* line 225
ZeroUnabled(room) == [room EXCEPT !.occupants.unabled = 0]

\* lines 232-237 and 242-247
BackToIdle(r) ==
    [r EXCEPT !.state = "idle", !.time_remaining = 0,
              !.target_room = 0, !.target_door = None]

\* lines 196-247 for responder i; st = [responders, remaining, rooms,
\* busy, zeroed, cleared, changes]
ProcessOne(i, exits_, speed, st) ==
    LET r == st.responders[i]
    IN  IF StillBusy(r) THEN st
        ELSE IF r.state = "moving"
        THEN LET t == clearance_time(st.rooms[r.target_room]) * Scale
             IN  [st EXCEPT !.responders[i] =
                         [r EXCEPT !.position = r.target_door,
                                   !.state = "clearing",
                                   !.time_remaining = t],
                     !.busy[i] = @ + t,
                     !.changes[i] = @ + 1]
        ELSE IF r.state = "clearing"
        THEN IF r.target_room = 0
             THEN [st EXCEPT !.responders[i].state = "idle",
                             !.changes[i] = @ + 1]
             ELSE LET room == r.target_room
                      num_unabled == st.rooms[room].occupants.unabled
                  IN  IF num_unabled > 0 /\ exits_ # <<>>
                      THEN Then(_unabled_evac_time(num_unabled, r.position,
                                                   exits_, speed),
                                LAMBDA ev :
                                    [st EXCEPT !.rooms[room] = ZeroUnabled(@),
                                               !.zeroed[room] = @ + 1,
                                               !.responders[i] =
                                                   [r EXCEPT !.position = ev[2],
                                                             !.state = "evacuating_unabled",
                                                             !.time_remaining = ev[1]],
                                               !.busy[i] = @ + ev[1],
                                               !.cleared[room] = @ + 1,
                                               !.changes[i] = @ + 1])
                      ELSE [st EXCEPT !.remaining = RemoveRoom(st.rooms, room, @),
                                      !.responders[i] = BackToIdle(r),
                                      !.cleared[room] = @ + 1,
                                      !.changes[i] = @ + 1]
        ELSE IF r.state = "evacuating_unabled"
        THEN [st EXCEPT !.remaining = RemoveRoom(st.rooms, r.target_room, @),
                        !.responders[i] = BackToIdle(r),
                        !.changes[i] = @ + 1]
        ELSE st

\* the loop of line 195, from responder i on
RECURSIVE ProcessFrom(_, _, _, _)
ProcessFrom(i, exits_, speed, st) ==
    IF i > Len(st.responders) THEN st
    ELSE Then(ProcessOne(i, exits_, speed, st),
              LAMBDA next : ProcessFrom(i + 1, exits_, speed, next))

\* a check that lets speed 0 through
SpeedRejected_NegativeOnly(speed) == speed < 0

\* line 130
SpeedRejected(speed) == speed <= 0

\* line 249: the value handed to the caller is the time and nothing else
ReturnValue == current_time

\* ---------------------------------------------------------------- actions
\* lines 130-131: raise ValueError
Reject ==
    /\ pc = "start"
    /\ SpeedRejected(responder_speed)
    /\ pc' = "error"
    /\ UNCHANGED <<inputs, rooms, remaining_rooms, responders, current_time,
                   busy, zeroed, cleared, changes, fnvars>>

\* lines 133-146
Setup ==
    /\ pc = "start"
    /\ ~SpeedRejected(responder_speed)
    /\ remaining_rooms' = [k \in 1..Len(rooms) |-> k]
    /\ responders' = [i \in 1..n_responders |-> NewResponder(start_position)]
    /\ current_time' = 0
    /\ pc' = "loop"
    /\ UNCHANGED <<inputs, rooms, busy, zeroed, cleared, changes, fnvars>>

\* line 148 false, then line 249
LoopExit ==
    /\ pc = "loop"
    /\ ~LoopCondition(remaining_rooms, responders)
    /\ pc' = "done"
    /\ UNCHANGED <<inputs, rooms, remaining_rooms, responders, current_time,
                   busy, zeroed, cleared, changes, fnvars>>

\* line 148 true, then step 1 (lines 150-175)
Assign ==
    /\ pc = "loop"
    /\ LoopCondition(remaining_rooms, responders)
    /\ \E st \in {Then([responders |-> responders,
                          available |-> available_rooms(rooms, remaining_rooms,
                                                        responders),
                          busy |-> busy,
                          changes |-> [i \in 1..n_responders |-> 0]],
                         LAMBDA st0 : AssignFrom(1, rooms, responder_speed, st0))} :
           /\ responders' = st.responders
           /\ busy' = st.busy
           /\ changes' = st.changes
    /\ pc' = "select"
    /\ UNCHANGED <<inputs, rooms, remaining_rooms, current_time, zeroed, cleared,
                   fnvars>>

\* lines 182-185: break, then line 249
Break ==
    /\ pc = "select"
    /\ active(responders) = {}
    /\ pc' = "done"
    /\ UNCHANGED <<inputs, rooms, remaining_rooms, responders, current_time,
                   busy, zeroed, cleared, changes, fnvars>>

\* steps 2 and 3 (lines 187-192)
Advance ==
    /\ pc = "select"
    /\ active(responders) # {}
    /\ LET dt == NextEvent(responders)
       IN  /\ current_time' = AdvanceClock(current_time, dt)
           /\ responders' = Elapse(responders, dt)
    /\ pc' = "process"
    /\ UNCHANGED <<inputs, rooms, remaining_rooms, busy, zeroed, cleared, changes,
                   fnvars>>

\* step 4 (lines 195-247)
Process ==
    /\ pc = "process"
    /\ \E st \in {Then([responders |-> responders, remaining |-> remaining_rooms,
                          rooms |-> rooms, busy |-> busy, zeroed |-> zeroed,
                          cleared |-> cleared, changes |-> changes],
                         LAMBDA st0 : ProcessFrom(1, exits, responder_speed, st0))} :
           /\ responders' = st.responders
           /\ remaining_rooms' = st.remaining
           /\ rooms' = st.rooms
           /\ busy' = st.busy
           /\ zeroed' = st.zeroed
           /\ cleared' = st.cleared
           /\ changes' = st.changes
    /\ pc' = "loop"
    /\ UNCHANGED <<inputs, current_time, fnvars>>

Next == Reject \/ Setup \/ LoopExit \/ Assign \/ Break \/ Advance \/ Process

\* ------------------------------------------------------------ the inputs
\* RectRoomShape(bottom_left, top_right) around a point
ShapeAround(p) ==
    [bottom_left |-> <<p[1] - 1, p[2] - 1>>, top_right |-> <<p[1] + 1, p[2] + 1>>]

\* create_rect_room, with the doors added
Room(id, base, children, unabled, shape, doors) ==
    [id |-> id, base_clear_time |-> base,
     occupants |-> [adults |-> 0, children |-> children, unabled |-> unabled],
     shape |-> shape, doors |-> doors]

\* a room list gets distinct ids, as in run.py
WithIds(templates) == [k \in 1..Len(templates) |-> [templates[k] EXCEPT !.id = k]]

SeqsUpTo(S, n) == UNION {[1..m -> S] : m \in 0..n}

InjectiveSeqs(S, n) ==
    {q \in SeqsUpTo(S, n) : \A i, j \in 1..Len(q) : i # j => q[i] # q[j]}

\* base_clear_time values, in ticks: 0, a fraction of a time unit, and the 15
\* of run.py
BaseTimes == {0, Scale + 1, 15 * Scale}

\* the rooms of the scheduling model: a door-less room with a fractional
\* clearance time and a one-door room that takes no time to clear
SimRooms ==
    {Room(0, Scale + 1, 0, u, ShapeAround(North), <<>>) : u \in 0..MaxUnabled}
    \cup {Room(0, 0, 0, u, ShapeAround(West), <<East>>) : u \in 0..MaxUnabled}

SimExits == {<<>>, <<West>>, <<Origin, East>>}

\* the rooms of the one-room runs
SingleRooms ==
    {Room(0, b, c, u, ShapeAround(North), d) :
        b \in BaseTimes, c \in 0..MaxChildren, u \in 0..MaxUnabled,
        d \in {<<>>, <<East>>, <<West, East>>, <<North, West>>}}

SingleExits == {<<>>, <<West>>, <<North, East>>, <<West, East>>}

SingleStarts == {Origin, North}

NoCall == [fn |-> "none"]

\* runs with several rooms and responders, from the default start position
SchedulingInputs ==
    /\ n_responders \in 0..MaxResponders
    /\ \E templates \in SeqsUpTo(SimRooms, MaxRooms) : rooms = WithIds(templates)
    /\ exits \in SimExits
    /\ start_position = Origin

\* runs with at most one room and at most one responder
SingleRoomInputs ==
    /\ n_responders \in 0..1
    /\ \E templates \in SeqsUpTo(SingleRooms, 1) : rooms = WithIds(templates)
    /\ exits \in SingleExits
    /\ start_position \in SingleStarts

Init ==
    /\ pc = "start"
    /\ SchedulingInputs \/ SingleRoomInputs
    /\ responder_speed \in Speeds
    /\ remaining_rooms = <<>>
    /\ responders = <<>>
    /\ current_time = 0
    /\ initial_rooms = rooms
    /\ busy = [i \in 1..n_responders |-> 0]
    /\ zeroed = [k \in 1..Len(rooms) |-> 0]
    /\ cleared = [k \in 1..Len(rooms) |-> 0]
    /\ changes = [i \in 1..n_responders |-> 0]
    /\ call = NoCall
    /\ ret = None

Spec == Init /\ [][Next]_vars

\* the loop runs on while it can: a sequential program takes its next step
FairSpec == Spec /\ WF_vars(Next)

\* ========================================================================
\* the pure functions, applied to inputs drawn from bounded sets
\* ========================================================================
DoorPoints == {West, East, North}

\* rooms as _choose_nearest_room reads them: doors and shape
FnRooms ==
    {Room(0, 0, 0, 0, ShapeAround(North), d) :
        d \in InjectiveSeqs(DoorPoints, MaxDoors) \ {<<>>}}
    \cup {Room(0, 0, 0, 0, ShapeAround(p), <<>>) : p \in {Origin, East}}

EvacCalls ==
    [fn : {"_unabled_evac_time"},
     num_unabled : (0 - 1)..(MaxUnabled + 1),
     door_position : Points,
     exits : SeqsUpTo(Points, MaxExits),
     responder_speed : Speeds]

ChooseCalls ==
    [fn : {"_choose_nearest_room"},
     position : Points,
     rooms_left : {WithIds(q) : q \in SeqsUpTo(FnRooms, MaxRooms)},
     speed : Speeds]

\* base_clear_time values for the property, in ticks: every value from 0 to
\* 2 time units, the fractional ones included
ClearanceBases == 0..(2 * Scale)

\* rooms as clearance_time reads them: base_clear_time and occupants
ClearanceCalls ==
    [fn : {"clearance_time"},
     room : {[Room(1, b, c, u, ShapeAround(North), <<>>)
                  EXCEPT !.occupants.adults = a] :
                b \in ClearanceBases, c \in 0..(MaxChildren + 1),
                u \in 0..MaxUnabled, a \in 0..1}]

FnInit ==
    /\ pc = "call"
    /\ call \in EvacCalls \cup ChooseCalls \cup ClearanceCalls
    /\ ret = None
    /\ n_responders = 0
    /\ rooms = <<>>
    /\ exits = <<>>
    /\ responder_speed = 1
    /\ start_position = Origin
    /\ remaining_rooms = <<>>
    /\ responders = <<>>
    /\ current_time = 0
    /\ initial_rooms = <<>>
    /\ busy = <<>>
    /\ zeroed = <<>>
    /\ cleared = <<>>
    /\ changes = <<>>

simvars == <<n_responders, rooms, exits, responder_speed, start_position,
             remaining_rooms, responders, current_time, initial_rooms, busy,
             zeroed, cleared, changes>>

ApplyUnabledEvacTime ==
    /\ pc = "call"
    /\ call.fn = "_unabled_evac_time"
    /\ ret' = _unabled_evac_time(call.num_unabled, call.door_position,
                                 call.exits, call.responder_speed)
    /\ pc' = "returned"
    /\ UNCHANGED <<call, simvars>>

ApplyChooseNearestRoom ==
    /\ pc = "call"
    /\ call.fn = "_choose_nearest_room"
    /\ ret' = _choose_nearest_room(call.position, call.rooms_left, call.speed)
    /\ pc' = "returned"
    /\ UNCHANGED <<call, simvars>>

ApplyClearanceTime ==
    /\ pc = "call"
    /\ call.fn = "clearance_time"
    /\ ret' = clearance_time(call.room)
    /\ pc' = "returned"
    /\ UNCHANGED <<call, simvars>>

FnNext == ApplyUnabledEvacTime \/ ApplyChooseNearestRoom \/ ApplyClearanceTime

FnSpec == FnInit /\ [][FnNext]_vars

\* ========================================================================
\* the claims
\* ========================================================================
Min(S) == CHOOSE x \in S : \A y \in S : x <= y

Working(i) == responders[i].state \in NonIdle

\* C1: room-claim exclusivity.  In every state of a run, after the assignment
\* step and after the transition step alike, no two distinct responders that
\* are moving, clearing or evacuating have the same target room.
C1_RoomClaimExclusive ==
    \A i, j \in 1..Len(responders) :
        (i # j /\ Working(i) /\ Working(j))
            => responders[i].target_room # responders[j].target_room

\* two responders, idle at the start of the first pass, claimed in that pass
C1_Witness ==
    /\ pc = "select"
    /\ current_time = 0
    /\ Len(responders) >= 2
    /\ responders[1].state = "moving"
    /\ responders[2].state = "moving"
    /\ responders[1].target_room # responders[2].target_room

\* C2: termination.  With speed > 0 the main loop is left after finitely many
\* passes and a time is returned, for any number of responders, rooms, exits.
C2_Terminates == (responder_speed > 0) => <>(pc = "done")

\* a run that returned after clearing two rooms, one with an evacuation
C2_Witness ==
    /\ pc = "done"
    /\ Len(rooms) >= 2
    /\ remaining_rooms = <<>>
    /\ \E k \in 1..Len(rooms) : zeroed[k] = 1

\* C3: lower bound.  The time returned is at least, for every responder, the
\* sum of the travel, clearance and evacuation countdowns it was given.
C3_LowerBound ==
    (pc = "done") => \A i \in 1..Len(responders) : ReturnValue >= busy[i]

\* a run that returned with one responder busy throughout and another not
C3_Witness ==
    /\ pc = "done"
    /\ \E i, j \in 1..Len(responders) :
           /\ busy[i] = ReturnValue
           /\ 0 < busy[j]
           /\ busy[j] < ReturnValue

\* the access points of a room as section 4.1 lists them
AccessPoints(room) ==
    IF Len(room.doors) > 0 THEN room.doors ELSE <<center(room.shape)>>

\* the first access point of a room among those nearest to a position
NearestAccess(pos, room) ==
    LET aps == AccessPoints(room)
        m == Min({_distance(pos, aps[j]) : j \in 1..Len(aps)})
    IN  aps[Min({j \in 1..Len(aps) : _distance(pos, aps[j]) = m})]

ExitDistance(p, exits_) == Min({_distance(p, exits_[k]) : k \in 1..Len(exits_)})

\* C4: one responder, one room.  The time returned is travel time to the
\* nearest access point plus the clearance time plus the unabled extra time:
\* 0 with no unabled occupants, (3U-1)*d/s with U >= 1 of them and the nearest
\* exit at distance d from that access point.  (Times s, in ticks.)
C4_OneResponderOneRoom ==
    (/\ pc = "done"
     /\ n_responders = 1
     /\ Len(initial_rooms) = 1
     /\ (initial_rooms[1].occupants.unabled = 0 \/ exits # <<>>))
    => LET room == initial_rooms[1]
           door == NearestAccess(start_position, room)
           U == room.occupants.unabled
           extra == IF U = 0 THEN 0
                    ELSE (3 * U - 1) * ExitDistance(door, exits) * Scale
       IN  ReturnValue * responder_speed =
               _distance(start_position, door) * Scale
               + clearance_time(room) * Scale * responder_speed
               + extra

\* speed 1, door at distance 3, clearance 15, two unabled, exit at distance 6:
\* 3 + 15 + 5 * 6 = 48
C4_Witness ==
    /\ pc = "done"
    /\ n_responders = 1
    /\ Len(initial_rooms) = 1
    /\ responder_speed = 1
    /\ start_position = Origin
    /\ initial_rooms[1].doors = <<East>>
    /\ initial_rooms[1].base_clear_time = 15 * Scale
    /\ initial_rooms[1].occupants.children = 0
    /\ initial_rooms[1].occupants.unabled = 2
    /\ exits = <<West>>
    /\ ReturnValue = 48 * Scale

Returned(fn) == pc = "returned" /\ call.fn = fn

\* C5: unabled-evacuation timing.  For U >= 1, s > 0 and a non-empty exit
\* list, extra_time = (3U-1)*d/s with d the distance from the door to the
\* nearest exit, the first such exit in list order is where the responder
\* ends, and at U = 1 the value is 2d/s.
C5_EvacTimeClosedForm ==
    (/\ Returned("_unabled_evac_time")
     /\ call.num_unabled >= 1
     /\ call.responder_speed > 0
     /\ call.exits # <<>>)
    => LET d == ExitDistance(call.door_position, call.exits)
           first == Min({k \in 1..Len(call.exits) :
                            _distance(call.door_position, call.exits[k]) = d})
       IN  /\ ret[1] * call.responder_speed
                  = (3 * call.num_unabled - 1) * d * Scale
           /\ ret[2] = call.exits[first]
           /\ call.num_unabled = 1
                  => ret[1] * call.responder_speed = 2 * d * Scale

\* U = 3, d = 4, s = 2 gives 16, the nearer exit coming second in the list
C5_Witness ==
    /\ Returned("_unabled_evac_time")
    /\ call.num_unabled = 3
    /\ call.responder_speed = 2
    /\ call.door_position = North
    /\ call.exits = <<West, Origin>>
    /\ ret = <<16 * Scale, Origin>>

\* C6: degenerate inputs.  With unabled_count <= 0, or speed <= 0, or no exit,
\* _unabled_evac_time returns (0, door_position).
C6_DegenerateEvac ==
    (/\ Returned("_unabled_evac_time")
     /\ \/ call.num_unabled <= 0
        \/ call.responder_speed <= 0
        \/ call.exits = <<>>)
    => ret = <<0, call.door_position>>

\* a count of zero with a usable speed and an exit away from the door
C6_Witness ==
    /\ Returned("_unabled_evac_time")
    /\ call.num_unabled = 0
    /\ call.responder_speed > 0
    /\ call.exits = <<East>>
    /\ call.door_position = West
    /\ ret = <<0, West>>

\* the (room, access point) places of a candidate list
Candidates(rooms_left) ==
    UNION {{<<k, j>> : j \in 1..Len(AccessPoints(rooms_left[k]))} :
              k \in 1..Len(rooms_left)}

CandidateDistance(pos, rooms_left, c) ==
    _distance(pos, AccessPoints(rooms_left[c[1]])[c[2]])

\* C7: nearest-room selection.  For a non-empty candidate list the pair
\* returned is at minimal distance over all access points of all candidates
\* and is the first such pair in room order then door order, travel_time is
\* that distance over the (positive) speed; for an empty list the result is
\* (None, None, 0).
C7_NearestRoomFirstWins ==
    Returned("_choose_nearest_room")
    => IF call.rooms_left = <<>> THEN ret = <<0, None, 0>>
       ELSE LET cs == Candidates(call.rooms_left)
                D(c) == CandidateDistance(call.position, call.rooms_left, c)
                m == Min({D(c) : c \in cs})
                best == CHOOSE c \in cs :
                            /\ D(c) = m
                            /\ \A e \in cs :
                                   D(e) = m => \/ c[1] < e[1]
                                               \/ c[1] = e[1] /\ c[2] <= e[2]
            IN  /\ ret[1] = best[1]
                /\ ret[2] = AccessPoints(call.rooms_left[best[1]])[best[2]]
                /\ call.speed > 0 => ret[3] * call.speed = m * Scale

\* from the origin the second door of the first room and the door of the
\* second room are both at distance 3: the first room wins
C7_Witness ==
    /\ Returned("_choose_nearest_room")
    /\ call.position = Origin
    /\ Len(call.rooms_left) = 2
    /\ call.rooms_left[1].doors = <<North, East>>
    /\ call.rooms_left[2].doors = <<West>>
    /\ call.speed = 2
    /\ ret = <<1, East, 3>>

\* C8: invalid speed.  With responder_speed <= 0 the call can only raise, and
\* it raises with no responder created, the time not advanced, and no room
\* changed or removed.
C8_InvalidSpeedRejected ==
    (responder_speed <= 0)
    => /\ pc \in {"start", "error"}
       /\ pc = "start" => (ENABLED Reject /\ ~ENABLED Setup)
       /\ responders = <<>>
       /\ current_time = 0
       /\ remaining_rooms = <<>>
       /\ rooms = initial_rooms

\* speed 0 rejected with responders asked for and a room with unabled given
C8_Witness ==
    /\ pc = "error"
    /\ responder_speed = 0
    /\ n_responders > 0
    /\ \E k \in 1..Len(rooms) : rooms[k].occupants.unabled > 0

\* what find_fastest_evacuation returns for an empty room list, every room
\* (there is none) cleared: the loop is not entered, lines 146 and 249
ClearedReturnOfNoRooms == 0

\* C9: unreachable rooms are a distinguishable end state.  A run that stopped
\* with rooms still in the pool does not report what a run that ended with
\* the pool empty reports.
C9_UnreachableDistinguishable ==
    (pc = "done" /\ remaining_rooms # <<>>)
        => ReturnValue # ClearedReturnOfNoRooms

Dispatched(i, room) ==
    /\ responders[i].state = "clearing"
    /\ responders[i].target_room = room
    /\ responders'[i].state = "evacuating_unabled"

C10_AtDispatch ==
    \A room \in 1..Len(rooms) :
        /\ (\E i \in 1..Len(responders) : Dispatched(i, room))
               <=> rooms'[room].occupants.unabled # rooms[room].occupants.unabled
        /\ (\E i \in 1..Len(responders) : Dispatched(i, room))
               => /\ rooms'[room].occupants.unabled = 0
                  /\ zeroed'[room] = zeroed[room] + 1

C10_Once ==
    \A room \in 1..Len(rooms) :
        /\ zeroed[room] <= 1
        /\ zeroed[room] = 1
               => \A p \in Points :
                      _unabled_evac_time(rooms[room].occupants.unabled, p,
                                         exits, responder_speed) = <<0, p>>

\* C10: a room's unabled count is set to zero in the step in which a
\* responder goes from clearing to evacuating_unabled for it, at most once per
\* room over a run, and the evacuation computation on the room afterwards
\* yields (0, door_position).
C10_ZeroedOnceAtDispatch == []C10_Once /\ [][C10_AtDispatch]_vars

\* an evacuation under way for a room whose count was positive and is zero
C10_Witness ==
    /\ pc = "loop"
    /\ \E i \in 1..Len(responders) :
           /\ responders[i].state = "evacuating_unabled"
           /\ responders[i].time_remaining > 0
           /\ initial_rooms[responders[i].target_room].occupants.unabled > 0
           /\ rooms[responders[i].target_room].occupants.unabled = 0
           /\ zeroed[responders[i].target_room] = 1

\* the original unabled count of a room, and the count now
OriginalUnabled(room) == initial_rooms[room].occupants.unabled

UnabledNow(room) == rooms[room].occupants.unabled

AllOrNothing == \A room \in 1..Len(rooms) : UnabledNow(room) \in {OriginalUnabled(room), 0}

\* C11 as stated: the count is the original value or zero, and a positive
\* count is not zero while the responder working the room is moving, is
\* clearing, or is in evacuating_unabled with a positive countdown.
C11_NotZeroedBeforeEvacuationEnds ==
    /\ AllOrNothing
    /\ \A i \in 1..Len(responders) :
           LET r == responders[i]
           IN  (/\ r.target_room # 0
                /\ OriginalUnabled(r.target_room) > 0
                /\ \/ r.state \in {"moving", "clearing"}
                   \/ r.state = "evacuating_unabled" /\ r.time_remaining > 0)
                   => UnabledNow(r.target_room) # 0

\* C11, amended: the count is the original value or zero; it is the original
\* value while the responder working the room is moving or clearing, and it
\* is zero for as long as that responder is in evacuating_unabled, from the
\* step of the dispatch on.
C11_ZeroFromDispatchOn ==
    /\ AllOrNothing
    /\ \A i \in 1..Len(responders) :
           LET r == responders[i]
           IN  /\ (r.target_room # 0 /\ r.state \in {"moving", "clearing"})
                      => UnabledNow(r.target_room) = OriginalUnabled(r.target_room)
               /\ (r.target_room # 0 /\ r.state = "evacuating_unabled")
                      => UnabledNow(r.target_room) = 0

\* a responder with a countdown left on carrying the several unabled
\* occupants of a room whose count is already zero
C11_Witness ==
    \E i \in 1..Len(responders) :
        /\ responders[i].state = "evacuating_unabled"
        /\ responders[i].time_remaining > 0
        /\ OriginalUnabled(responders[i].target_room) > 1
        /\ UnabledNow(responders[i].target_room) = 0
        /\ \E j \in 1..Len(responders) :
               /\ responders[j].state = "clearing"
               /\ UnabledNow(responders[j].target_room) > 0

\* the time jump of a pass: the step from the assignment to the transitions
C12_Jump ==
    (pc = "select" /\ pc' = "process")
        => LET m == Min({responders[i].time_remaining :
                            i \in {j \in 1..Len(responders) : Working(j)}})
           IN  /\ current_time' = current_time + m
               /\ \A i \in 1..Len(responders) :
                      IF Working(i)
                      THEN responders'[i] =
                               [responders[i] EXCEPT !.time_remaining = @ - m]
                      ELSE responders'[i] = responders[i]
               /\ \E i \in 1..Len(responders) :
                      Working(i) /\ responders'[i].time_remaining = 0

C12_NoOtherAdvance ==
    /\ current_time' >= current_time
    /\ ~(pc = "select" /\ pc' = "process") => current_time' = current_time

C12_NonNegative ==
    \A i \in 1..Len(responders) : responders[i].time_remaining >= 0

\* C12: global time never decreases and moves only in the jump of a pass,
\* which adds exactly the least countdown among the non-idle responders as
\* they stand after the assignment step, takes that amount off every non-idle
\* countdown and leaves at least one of them at zero; no countdown is ever
\* negative.
C12_TimeJumps == []C12_NonNegative /\ [][C12_Jump /\ C12_NoOtherAdvance]_vars

\* after a jump of positive length, one responder due and another still busy
C12_Witness ==
    /\ pc = "process"
    /\ current_time > 0
    /\ \E i, j \in 1..Len(responders) :
           /\ Working(i) /\ responders[i].time_remaining = 0
           /\ Working(j) /\ responders[j].time_remaining > 0

\* the function has ended with nothing left in the pool and everybody idle
EndedCleared ==
    /\ pc = "done"
    /\ remaining_rooms = <<>>
    /\ \A i \in 1..Len(responders) : responders[i].state = "idle"

\* C13: completion means everyone is out.  When the function ends with an
\* empty pool and all responders idle, a clearing countdown has ended for
\* every room, and every room that had unabled occupants has a count of zero
\* and had a responder go through evacuating_unabled for it; this for every
\* exit list, the empty one included.
C13_EveryoneOut ==
    EndedCleared
        => \A room \in 1..Len(rooms) :
               /\ cleared[room] >= 1
               /\ OriginalUnabled(room) > 0
                      => UnabledNow(room) = 0 /\ zeroed[room] >= 1

\* base_clear_time + 5 * children of a room, in ticks
ClearanceLoad(room) == room.base_clear_time + 5 * room.occupants.children * Scale

\* n is the least whole number of time units that covers t ticks
IsCeiling(n, t) == n * Scale >= t /\ (n - 1) * Scale < t

\* C14: clearance_time is the ceiling of base_clear_time + 5 * children; it
\* is the same for every adult count and unabled count, it is the ceiling of
\* base_clear_time when there are no children, and it does not go down when a
\* child is added.
C14_ClearanceTime ==
    Returned("clearance_time")
        => LET room == call.room
           IN  /\ IsCeiling(ret, ClearanceLoad(room))
               /\ \A a \in 0..1, u \in 0..MaxUnabled :
                      clearance_time([room EXCEPT !.occupants.adults = a,
                                                  !.occupants.unabled = u]) = ret
               /\ room.occupants.children = 0
                      => IsCeiling(ret, room.base_clear_time)
               /\ room.occupants.children > 0
                      => clearance_time([room EXCEPT !.occupants.children = @ - 1])
                             <= ret

\* a room with adults, a child and unabled occupants and a base time of one
\* unit and a fraction: ceil(1.x + 5) = 7
C14_Witness ==
    /\ Returned("clearance_time")
    /\ call.room.base_clear_time = Scale + 1
    /\ call.room.occupants = [adults |-> 1, children |-> 1, unabled |-> 1]
    /\ ret = 7

States == {"idle"} \cup NonIdle

C15_States == \A i \in 1..Len(responders) : responders[i].state \in States

\* a change of responder i's state in a step is one of the five, made at a
\* countdown of zero: idle -> moving in the assignment step, the others in
\* the transition step
C15_Change(i) ==
    LET a == responders[i]
        b == responders'[i]
        Goes(from, to) == a.state = from /\ b.state = to
    IN  a.state # b.state
            => /\ a.time_remaining = 0
               /\ \/ pc = "loop" /\ Goes("idle", "moving")
                  \/ pc = "process" /\ Goes("moving", "clearing")
                  \/ pc = "process" /\ Goes("clearing", "evacuating_unabled")
                  \/ pc = "process" /\ Goes("clearing", "idle")
                  \/ pc = "process" /\ Goes("evacuating_unabled", "idle")

\* where a responder whose clearing countdown has ended goes
C15_AfterClearing(i) ==
    (/\ pc = "process"
     /\ responders[i].state = "clearing"
     /\ responders[i].time_remaining = 0)
        => responders'[i].state =
               IF UnabledNow(responders[i].target_room) > 0 /\ exits # <<>>
               THEN "evacuating_unabled"
               ELSE "idle"

\* the count of a responder's changes in the pass goes up by one with each
\* change of its state, and starts again with the assignment step
C15_Counted(i) ==
    LET changed == IF responders[i].state # responders'[i].state THEN 1 ELSE 0
    IN  changes'[i] = (IF pc = "loop" /\ pc' = "select" THEN 0 ELSE changes[i])
                          + changed

C15_Step ==
    \A i \in 1..Len(responders) :
        C15_Change(i) /\ C15_AfterClearing(i) /\ C15_Counted(i)

C15_OncePerPass == \A i \in 1..Len(responders) : changes[i] <= 1

\* at most one change in the assignment step and one in the transition step:
\* two in a pass are idle -> moving -> clearing
C15_OncePerStep ==
    \A i \in 1..Len(responders) :
        /\ changes[i] <= 2
        /\ changes[i] = 2 => pc = "loop" /\ responders[i].state = "clearing"

\* C15 as stated: the state is one of the four; the only changes are
\* idle -> moving (assignment), moving -> clearing, clearing ->
\* evacuating_unabled, clearing -> idle and evacuating_unabled -> idle, each
\* at a countdown of zero and at most one per responder per pass; after
\* clearing the responder goes to evacuating_unabled exactly when the room's
\* unabled count read then is positive and there is an exit, else to idle.
C15_TransitionRelation ==
    [](C15_States /\ C15_OncePerPass) /\ [][C15_Step]_vars

\* C15, amended: as stated, but at most one change per responder in the
\* assignment step and one in the transition step of a pass, so that a
\* responder assigned a room at travel time zero goes idle -> moving ->
\* clearing within one pass.
C15_TransitionRelationPerStep ==
    [](C15_States /\ C15_OncePerStep) /\ [][C15_Step]_vars

\* a responder back from evacuating one room is assigned the next at travel
\* time zero and is clearing it in the same pass
C15_Witness ==
    /\ pc = "loop"
    /\ \E i \in 1..Len(responders) :
           /\ changes[i] = 2
           /\ responders[i].state = "clearing"
           /\ \E room \in 1..Len(rooms) :
                  /\ room # responders[i].target_room
                  /\ zeroed[room] = 1
                  /\ ~RoomIn(rooms, room, remaining_rooms)

\* the first exit of the list among those nearest to a door
FirstNearestExit(door) ==
    exits[Min({k \in 1..Len(exits) :
                   _distance(door, exits[k]) = ExitDistance(door, exits)})]

Evacuating(i) == responders[i].state = "evacuating_unabled"

C16_StillAtDoor ==
    \A i \in 1..Len(responders) :
        (Evacuating(i) /\ responders[i].time_remaining > 0)
            => responders[i].position = responders[i].target_door

C16_MovedAtTheEnd ==
    \A i \in 1..Len(responders) :
        /\ (responders[i].state = "clearing" /\ Evacuating(i)')
               => responders'[i].position = responders[i].position
        /\ (Evacuating(i) /\ responders'[i].state = "idle")
               => responders'[i].position = FirstNearestExit(responders[i].target_door)

\* C16 as stated: the step from clearing to evacuating_unabled leaves the
\* responder's position as it is; in evacuating_unabled with a positive
\* countdown the position is the room's access point; it becomes the exit's
\* position when the countdown has run out.
C16_PositionDuringEvacuation == []C16_StillAtDoor /\ [][C16_MovedAtTheEnd]_vars

C16_AtExit ==
    \A i \in 1..Len(responders) :
        Evacuating(i)
            => responders[i].position = FirstNearestExit(responders[i].target_door)

C16_MovedAtDispatch ==
    \A i \in 1..Len(responders) :
        /\ (responders[i].state = "clearing" /\ Evacuating(i)')
               => /\ responders[i].position = responders[i].target_door
                  /\ responders'[i].position =
                         FirstNearestExit(responders[i].position)
        /\ (Evacuating(i) /\ responders'[i].state = "idle")
               => responders'[i].position = responders[i].position

\* C16, amended: the step from clearing to evacuating_unabled moves the
\* responder's position from the room's access point to the nearest exit; in
\* evacuating_unabled, whatever the countdown, the position is that exit's,
\* and the step back to idle leaves it there.
C16_PositionSetAtDispatch == []C16_AtExit /\ [][C16_MovedAtDispatch]_vars

\* an evacuation under way, its responder recorded at an exit away from the
\* door it carries from
C16_Witness ==
    \E i \in 1..Len(responders) :
        /\ Evacuating(i)
        /\ responders[i].time_remaining > 0
        /\ responders[i].position # responders[i].target_door
        /\ responders[i].position = FirstNearestExit(responders[i].target_door)

\* the transition step that ends a pass
EndOfPass == pc = "process" /\ pc' = "loop"

\* C17 as stated: every pass either leaves fewer rooms in the pool than it
\* found or is the pass on which the loop ends.
C17_PoolShrinksEveryPass ==
    [][EndOfPass => \/ Len(remaining_rooms') < Len(remaining_rooms)
                    \/ ~LoopCondition(remaining_rooms', responders')]_vars

\* how far a responder is with its room
Stage(r) ==
    CASE r.state = "clearing" -> 1
      [] r.state = "evacuating_unabled" -> 2
      [] OTHER -> 0

RECURSIVE StagesFrom(_, _)
StagesFrom(i, resp) ==
    IF i > Len(resp) THEN 0 ELSE Stage(resp[i]) + StagesFrom(i + 1, resp)

\* the stages still to be gone through: three for each room of the pool (to
\* its door, cleared, evacuated), less those its responder has behind it
StagesLeft(remaining, resp) == 3 * Len(remaining) - StagesFrom(1, resp)

C17_Progress ==
    /\ EndOfPass => /\ StagesLeft(remaining_rooms', responders')
                          < StagesLeft(remaining_rooms, responders)
                    /\ Len(remaining_rooms') <= Len(remaining_rooms)
    /\ (pc # "start" /\ ~EndOfPass) => remaining_rooms' = remaining_rooms

\* C17, amended: the pool never grows, and every pass that runs its
\* transition step either leaves fewer rooms in the pool or takes a responder
\* one stage on with its room (moving -> clearing, clearing ->
\* evacuating_unabled); the stages left, three at most per room of the pool,
\* go down with every such pass and are never negative, so the loop runs at
\* most 3 * (number of rooms) such passes.
C17_StagesLeftShrinkEveryPass ==
    [](StagesLeft(remaining_rooms, responders) >= 0) /\ [][C17_Progress]_vars

\* two passes over and the pool as full as at the start
C17_Witness ==
    /\ pc = "loop"
    /\ rooms # <<>>
    /\ Len(remaining_rooms) = Len(rooms)
    /\ \E i \in 1..Len(responders) : Evacuating(i)

\* the room object is an entry of the pool
InPool(room) == \E k \in 1..Len(remaining_rooms) : remaining_rooms[k] = room

C18_HeldWhileWorked ==
    /\ \A i \in 1..Len(responders) :
           Working(i) => /\ responders[i].target_room # 0
                         /\ InPool(responders[i].target_room)
    /\ \A k, h \in 1..Len(remaining_rooms) :
           k # h => remaining_rooms[k] # remaining_rooms[h]

C18_RemovedOnReturn ==
    \A room \in 1..Len(rooms) :
        /\ (InPool(room) /\ ~InPool(room)')
               <=> \E i \in 1..Len(responders) :
                       /\ Working(i)
                       /\ responders[i].target_room = room
                       /\ responders'[i].state = "idle"
        /\ (pc # "start" /\ ~InPool(room)) => ~InPool(room)'

\* C18: with the rooms given as distinct list entries, a room is in the pool
\* for as long as a responder is moving to it, clearing it or evacuating its
\* unabled occupants; it leaves the pool in the very step in which that
\* responder goes back to idle and in no other; once out it is never back in
\* the pool, so it is removed once and never claimed again.
C18_RemovedOnceAtTheEnd == []C18_HeldWhileWorked /\ [][C18_RemovedOnReturn]_vars

\* one room done and out of the pool, another still worked on and in it
C18_Witness ==
    /\ pc = "loop"
    /\ \E room \in 1..Len(rooms) : cleared[room] = 1 /\ ~InPool(room)
    /\ \E i \in 1..Len(responders) :
           Evacuating(i) /\ InPool(responders[i].target_room)

\* a responder that is not idle has the room for target
Claimed(room) ==
    \E j \in 1..Len(responders) : Working(j) /\ responders[j].target_room = room

\* the assignment step of a pass
AssignmentStep == pc = "loop" /\ pc' = "select"

\* responder i takes room in this assignment step
Takes(i, room) ==
    /\ responders[i].state = "idle"
    /\ responders'[i].state = "moving"
    /\ responders'[i].target_room = room

C19_NoneIdleWithWorkLeft ==
    pc = "select"
        => ~\E i \in 1..Len(responders), room \in 1..Len(rooms) :
               /\ responders[i].state = "idle"
               /\ InPool(room)
               /\ ~Claimed(room)

\* what responder i could have had when its turn came: the rooms of the pool
\* not claimed before the step, less those taken in it by the responders
\* before i
OpenTo(i) ==
    {room \in 1..Len(rooms) :
        /\ InPool(room)
        /\ ~Claimed(room)
        /\ ~\E j \in 1..(i - 1) : Takes(j, room)}

C19_GivenTheNearest ==
    /\ (pc \in {"process", "loop"}) => current_time' = current_time
    /\ AssignmentStep
           => \A i \in 1..Len(responders) :
                  responders[i].state = "idle"
                      => IF OpenTo(i) = {}
                         THEN responders'[i] = responders[i]
                         ELSE \E room \in OpenTo(i) :
                                  LET pos == responders[i].position
                                      d == _distance(pos, responders'[i].target_door)
                                  IN  /\ Takes(i, room)
                                      /\ responders'[i].target_door =
                                             NearestAccess(pos, rooms[room])
                                      /\ responders'[i].position = pos
                                      /\ responders'[i].time_remaining
                                             * responder_speed = d * Scale
                                      /\ \A other \in OpenTo(i) :
                                             d <= _distance(pos,
                                                      NearestAccess(pos, rooms[other]))

\* C19: after the assignment step of a pass no responder is idle while a room
\* of the pool is unclaimed; an idle responder, one that has just gone back
\* to idle included, is given in that step the nearest of the rooms still
\* open to it, and the clock does not move between the transition step that
\* made it idle and that assignment.
C19_WorkConserving == []C19_NoneIdleWithWorkLeft /\ [][C19_GivenTheNearest]_vars

\* a responder back from a room it has cleared, at another place than the
\* start, sent on to the room that is left without the clock having moved
C19_Witness ==
    /\ pc = "select"
    /\ current_time > 0
    /\ \E room \in 1..Len(rooms) : cleared[room] = 1 /\ ~InPool(room)
    /\ \E i \in 1..Len(responders) :
           /\ responders[i].state = "moving"
           /\ responders[i].position # start_position
           /\ responders[i].time_remaining > 0

\* the exit of lines 182-185
BreakTaken == pc = "select" /\ pc' = "done"

AllIdleNoTarget ==
    \A i \in 1..Len(responders) :
        /\ responders[i].state = "idle"
        /\ responders[i].target_room = 0
        /\ responders[i].target_door = None

C20_EndState ==
    /\ (pc = "done" /\ n_responders >= 1)
           => remaining_rooms = <<>> /\ AllIdleNoTarget
    /\ (n_responders = 0 /\ rooms # <<>>)
           => /\ pc # "process"
              /\ pc = "done" => /\ ReturnValue = 0
                                /\ remaining_rooms = [k \in 1..Len(rooms) |-> k]

C20_BreakOnlyWithoutResponders ==
    BreakTaken => n_responders = 0 /\ rooms # <<>> /\ current_time = 0

\* C20: with at least one responder and a positive speed the exit 'no active
\* responder while rooms remain' is never taken, and the function ends, with
\* an empty pool and every responder idle with no target room; with no
\* responder and a non-empty room list it ends on its first pass, by that
\* exit, with time 0 and every room still in the pool.
C20_NoStallWithResponders ==
    /\ []C20_EndState
    /\ [][C20_BreakOnlyWithoutResponders]_vars
    /\ (responder_speed > 0) => <>(pc = "done")

\* a run of two responders over two rooms, one with unabled occupants, that
\* has ended
C20_Witness ==
    /\ pc = "done"
    /\ n_responders = 2
    /\ Len(rooms) = 2
    /\ \E room \in 1..Len(rooms) : zeroed[room] = 1
    /\ remaining_rooms = <<>>
    /\ current_time > 0

====
